---- MODULE Spec2Model ----
(***************************************************************************)
(* Model of the two utility scripts of voc-table-recognition:              *)
(*   src/utils/convert_prima_to_coco_rc.py  (PAGE XML -> COCO converter)   *)
(*   src/utils/download-voc.py              (METS based image downloader)  *)
(***************************************************************************)
EXTENDS Integers, Sequences, FiniteSets, TLC

VARIABLES
    \* ---- converter (PRIMADataset.convert_to_COCO) ----
    conv_pc,            \* "loop" while the for loop of line 198 runs, "done" after line 255
    idx,                \* enumerate() index of the next entry of self._ids
    anno_id,            \* the running annotation id (line 196)
    all_image_infos,    \* line 194
    all_anno_infos,     \* line 195
    last,               \* the latest loop iteration: skipped or not, the output lengths before it
    solo,               \* output of a separate run over a dataset holding only that file
    \* ---- one TableRegion of the loop of line 208 on its own ----
    r_item,             \* the cells of the region
    r_pc,
    r_before, r_after,  \* the run before and after lines 217-234
    \* ---- group_cells_by_row_and_column on its own ----
    g_cells, g_pc, g_rows, g_columns,
    \* ---- find_image_url on its own ----
    f_mets, f_label, f_pc, f_result,
    \* ---- downloader (main of download-voc.py) ----
    dl_pc,              \* where main is: "rename", "ead", "loop", "done", "crashed"
    source_dir,         \* the *.xml file names in source_dir
    target_dir,         \* the file names in target_dir
    renamed_files,      \* line 134
    unitid_mets,        \* line 138
    processed_mets,     \* line 140
    mets_disk,          \* the content of the manifests written to target_dir
    pos,                \* how many entries of renamed_files the loop of line 141 has taken
    calls,              \* the download_mets and find_image_url calls made, in order
    handed,             \* per process_file call: the file and what the call did
    dir0                \* source_dir and target_dir as they were before the run

conv_vars == <<conv_pc, idx, anno_id, all_image_infos, all_anno_infos, last, solo>>
region_vars == <<r_item, r_pc, r_before, r_after>>
group_vars == <<g_cells, g_pc, g_rows, g_columns>>
find_vars == <<f_mets, f_label, f_pc, f_result>>
dl_vars == <<dl_pc, source_dir, target_dir, renamed_files, unitid_mets, processed_mets,
             mets_disk, pos, calls, handed, dir0>>
vars == <<conv_vars, region_vars, group_vars, find_vars, dl_vars>>

\* ------------------------------------------------------------------ bounds
MaxFiles == 3
MaxRegions == 1
MaxCells == 3
MaxGroupCells == 3
MaxDivs == 2
MaxFileEls == 2
MaxSources == 3

\* ------------------------------------------------------------------ helpers
Range(s) == {s[i] : i \in 1..Len(s)}

SeqsUpTo(S, n) == UNION {[1..k -> S] : k \in 0..n}

\* ------------------------------------------------------------------ input data
\* A row/col attribute is a decimal string, kept as its sequence of digits.
\* int() of the attribute (lines 86, 87).
RECURSIVE ParseInt(_)
ParseInt(digits) ==
    IF digits = <<>> THEN 0
    ELSE 10 * ParseInt(SubSeq(digits, 1, Len(digits) - 1)) + digits[Len(digits)]

\* The point array of a Coords element, abstracted to what the geometry code
\* reads: n the number of points, shape what make_valid(Polygon(points)) is
\* ("area": a unit square over grid slot `slot`; "line": a degenerate,
\* zero-area outline lying in slot `slot`), for n < 3 nothing.
NoPoints == [n |-> 0, shape |-> "none", slot |-> 0]
TwoPoints == [n |-> 2, shape |-> "none", slot |-> 0]
Collinear(s) == [n |-> 3, shape |-> "line", slot |-> s]
Square(s) == [n |-> 4, shape |-> "area", slot |-> s]

\* A Coords element: with a points attribute, with Point children, or with
\* neither; array is the points it holds.
Coords(form, array) == [form |-> form, array |-> array]

\* Squares in neighbouring slots share an edge; slot 4 is apart from 1 and 2.
ConvCoords ==
    {Coords("none", NoPoints), Coords("points", TwoPoints), Coords("points", Collinear(1)),
     Coords("points", Square(1)), Coords("Point", Square(2)), Coords("Point", Square(4))}

GroupAttrs == {<<0>>, <<1>>, <<0, 1>>}

\* The cells a region may hold: (row, col) of a two-row table whose second
\* row has one cell.
ConvKeys == {<<(<<0>>), (<<0>>)>>, <<(<<0>>), (<<1>>)>>, <<(<<1>>), (<<0>>)>>}
ConvCells == {[row |-> k[1], col |-> k[2], coords |-> c] : k \in ConvKeys, c \in ConvCoords}
Cell(row, col, coords) == [row |-> row, col |-> col, coords |-> coords]

\* The regions the files of a run may hold: a row of two adjacent cells, a
\* column whose first cell has two points only, a cell without points.
RunRegions ==
    { <<Cell(<<0>>, <<0>>, Coords("points", Square(1))),
        Cell(<<0>>, <<1>>, Coords("points", Square(2)))>>,
      <<Cell(<<0>>, <<0>>, Coords("points", TwoPoints)),
        Cell(<<1>>, <<0>>, Coords("Point", Square(4)))>>,
      <<Cell(<<0>>, <<0>>, Coords("none", NoPoints))>> }
FileNames == {"p1", "p2"}
\* The annotation files a dataset can hold. The annotation of a file whose
\* image is missing is never loaded (line 202 comes before line 206).
AnnoFiles ==
    [name : FileNames, image : {"missing"}, regions : {<<>>}]
    \cup [name : FileNames, image : {"jpg"}, regions : SeqsUpTo(RunRegions, MaxRegions)]

\* item.find_all('TableCell') (line 217): the cell elements in document order,
\* each with its identity el.
FindAllTableCell(item) ==
    [i \in 1..Len(item) |-> [el |-> i, row |-> item[i].row, col |-> item[i].col,
                             coords |-> item[i].coords]]

\* cvt_coords_to_array(cell.Coords) (lines 31-42): the points of the
\* attribute, else those of the Point children, else an empty array.
cvt_coords_to_array(obj) ==
    IF obj.form = "points" THEN obj.array
    ELSE IF obj.form = "Point" THEN obj.array
    ELSE NoPoints

\* ------------------------------------------------------------------ dict
\* A Python dict keeps insertion order: a sequence of entries [k, v].
DictKeys(d) == {d[i].k : i \in 1..Len(d)}
DictAppend(d, key, x) ==
    IF key \in DictKeys(d)
    THEN [i \in 1..Len(d) |-> IF d[i].k = key THEN [k |-> key, v |-> Append(d[i].v, x)]
                                               ELSE d[i]]
    ELSE Append(d, [k |-> key, v |-> <<x>>])

\* ------------------------------------------------------------------ grouping
\* A plausible slip: the list of a row is started anew for every cell.
AddToRows_Overwrite(rows, cell) ==
    IF ParseInt(cell.row) \in DictKeys(rows)
    THEN [i \in 1..Len(rows) |-> IF rows[i].k = ParseInt(cell.row)
                                  THEN [k |-> rows[i].k, v |-> <<cell>>] ELSE rows[i]]
    ELSE Append(rows, [k |-> ParseInt(cell.row), v |-> <<cell>>])

\* One iteration of the loop body for the rows dict (lines 86, 89-91).
AddToRows(rows, cell) == DictAppend(rows, ParseInt(cell.row), cell)

\* One iteration of the loop body for the columns dict (lines 87, 93-95).
AddToColumns(columns, cell) == DictAppend(columns, ParseInt(cell.col), cell)

RECURSIVE GroupLoop(_, _, _)
GroupLoop(cells, rows, columns) ==
    IF cells = <<>> THEN [rows |-> rows, columns |-> columns]
    ELSE GroupLoop(Tail(cells), AddToRows(rows, cells[1]), AddToColumns(columns, cells[1]))

group_cells_by_row_and_column(cells) == GroupLoop(cells, <<>>, <<>>)

\* ------------------------------------------------------------------ geometry
\* The cells of a group that give a polygon: len(coords) >= 3 (lines 104-112).
RECURSIVE GroupPolygons(_)
GroupPolygons(cell_list) ==
    IF cell_list = <<>> THEN <<>>
    ELSE LET coords == cvt_coords_to_array(cell_list[1].coords)
         IN  IF coords.n >= 3 THEN <<coords>> \o GroupPolygons(Tail(cell_list))
             ELSE GroupPolygons(Tail(cell_list))

\* The slots covered by the polygons that have an area.
AreaSlots(polygons) == {p.slot : p \in {q \in Range(polygons) : q.shape = "area"}}

\* The connected part of slot set S that holds s: squares in neighbouring
\* slots share an edge.
Component(s, S) ==
    {t \in S : \A u \in (IF t < s THEN t..s ELSE s..t) : u \in S}

Components(S) == {Component(s, S) : s \in S}

Lowest(S) == CHOOSE s \in S : \A t \in S : s <= t
Highest(S) == CHOOSE s \in S : \A t \in S : t <= s

\* unary_union(polygons) (line 115): the type of the union and its parts.
\* A zero-area outline inside a covered slot is absorbed by the union; one
\* outside stays as a separate line, and the union is then a collection.
unary_union(polygons) ==
    LET S == AreaSlots(polygons)
        dangling == \E p \in Range(polygons) : p.shape = "line" /\ p.slot \notin S
    IN  IF S = {} THEN [geom_type |-> "LineString", geoms |-> {}]
        ELSE IF dangling THEN [geom_type |-> "GeometryCollection", geoms |-> Components(S)]
        ELSE IF Cardinality(Components(S)) = 1
             THEN [geom_type |-> "Polygon", geoms |-> Components(S)]
             ELSE [geom_type |-> "MultiPolygon", geoms |-> Components(S)]

\* np.array(polygon.exterior.coords) (lines 117, 121): the closed outer ring
\* of a run of unit squares, slots lo..hi; n is its number of points.
ExteriorCoords(comp) ==
    [lo |-> Lowest(comp), hi |-> Highest(comp), n |-> 2 * Cardinality(comp) + 3]

\* max(union_polygon.geoms, key=lambda p: p.area) (line 120); of equally
\* large parts max() keeps the first, here the leftmost.
LargestPolygon(geoms) ==
    CHOOSE c \in geoms :
        \A d \in geoms : Cardinality(d) < Cardinality(c)
                         \/ (Cardinality(d) = Cardinality(c) /\ Lowest(c) <= Lowest(d))

\* A plausible slip: the MultiPolygon branch (lines 119-122) left out.
UnionBoundary_NoMulti(group_idx, polygons) ==
    LET u == unary_union(polygons)
    IN  IF u.geom_type = "Polygon"
        THEN <<[k |-> group_idx, pts |-> ExteriorCoords(CHOOSE c \in u.geoms : TRUE)]>>
        ELSE <<>>

\* Lines 115-122: the boundary entries one group with polygons contributes.
UnionBoundary(group_idx, polygons) ==
    LET u == unary_union(polygons)
    IN  IF u.geom_type = "Polygon"
        THEN <<[k |-> group_idx, pts |-> ExteriorCoords(CHOOSE c \in u.geoms : TRUE)]>>
        ELSE IF u.geom_type = "MultiPolygon"
        THEN <<[k |-> group_idx, pts |-> ExteriorCoords(LargestPolygon(u.geoms))]>>
        ELSE <<>>

\* calculate_group_boundaries (lines 100-123), over the dict's entries in order.
RECURSIVE calculate_group_boundaries(_)
calculate_group_boundaries(group) ==
    IF group = <<>> THEN <<>>
    ELSE LET polygons == GroupPolygons(group[1].v)
         IN  (IF polygons = <<>> THEN <<>> ELSE UnionBoundary(group[1].k, polygons))
             \o calculate_group_boundaries(Tail(group))

\* ------------------------------------------------------------------ templates
\* _create_category (lines 50-69)
CategoryId(obj_tag) == IF obj_tag = "TableRow" THEN 1 ELSE 2

\* _image_template (lines 131-138)
ImageTemplate(image_id, file) ==
    [file_name |-> file.name, height |-> 1, width |-> 4, id |-> image_id]

\* _anno_template (lines 140-154); a unit square over slot s spans x in s-1..s
\* and y in 0..1.
AnnoTemplate(id, image_id, pts, obj_tag) ==
    LET x_1 == pts.lo - 1
        x_2 == pts.hi
    IN  [segmentation |-> <<pts.lo, pts.hi>>, area |-> x_2 - x_1, iscrowd |-> 0,
         image_id |-> image_id, bbox |-> <<x_1, 0, x_2 - x_1, 1>>,
         category_id |-> CategoryId(obj_tag), id |-> id]

\* ------------------------------------------------------------------ converter
\* The state of one convert_to_COCO run (lines 194-196 and the loop index).
NewRun == [idx |-> 0, anno_id |-> 0, images |-> <<>>, annos |-> <<>>]

\* A plausible slip: the id counter is not advanced after an append.
EmitOne_NoIncrement(st, image_id, b, obj_tag) ==
    IF b.pts.n >= 3
    THEN [st EXCEPT !.annos = Append(@, AnnoTemplate(st.anno_id, image_id, b.pts, obj_tag))]
    ELSE st

\* A plausible slip: the record carries the running counter as its image_id.
EmitOne_WrongImage(st, image_id, b, obj_tag) ==
    IF b.pts.n >= 3
    THEN [st EXCEPT !.annos = Append(@, AnnoTemplate(st.anno_id, st.anno_id, b.pts, obj_tag)),
                    !.anno_id = @ + 1]
    ELSE st

\* A plausible slip: the area accumulates over the records emitted so far.
EmitOne_RunningArea(st, image_id, b, obj_tag) ==
    IF b.pts.n >= 3
    THEN [st EXCEPT !.annos = Append(@, [AnnoTemplate(st.anno_id, image_id, b.pts, obj_tag)
                                          EXCEPT !.area = @ + Len(st.annos)]),
                    !.anno_id = @ + 1]
    ELSE st

\* The body of the loops of lines 222-226 and 230-234 for one boundary.
EmitOne(st, image_id, b, obj_tag) ==
    IF b.pts.n >= 3
    THEN [st EXCEPT !.annos = Append(@, AnnoTemplate(st.anno_id, image_id, b.pts, obj_tag)),
                    !.anno_id = @ + 1]
    ELSE st

RECURSIVE EmitBoundaries(_, _, _, _)
EmitBoundaries(st, image_id, boundaries, obj_tag) ==
    IF boundaries = <<>> THEN st
    ELSE EmitBoundaries(EmitOne(st, image_id, boundaries[1], obj_tag), image_id,
                        Tail(boundaries), obj_tag)

\* Lines 217-234 for one TableRegion.
ProcessRegion(st, image_id, item) ==
    LET table_cells == FindAllTableCell(item)
        g == group_cells_by_row_and_column(table_cells)
        row_boundaries == calculate_group_boundaries(g.rows)
        st1 == EmitBoundaries(st, image_id, row_boundaries, "TableRow")
        column_boundaries == calculate_group_boundaries(g.columns)
    IN  EmitBoundaries(st1, image_id, column_boundaries, "TableColumn")

\* The loop of line 208 over the file's regions.
RECURSIVE ProcessRegions(_, _, _)
ProcessRegions(st, image_id, regions) ==
    IF regions = <<>> THEN st
    ELSE ProcessRegions(ProcessRegion(st, image_id, regions[1]), image_id, Tail(regions))

\* One iteration of the loop of line 198 on annotation file `file`.
LoopBody(st, file) ==
    IF file.image = "missing"
    THEN [st EXCEPT !.idx = @ + 1]
    ELSE LET st1 == [st EXCEPT !.images = Append(@, ImageTemplate(st.idx, file))]
         IN  [ProcessRegions(st1, st.idx, file.regions) EXCEPT !.idx = @ + 1]

ConvStart ==
    /\ conv_pc = "loop"
    /\ idx = 0
    /\ anno_id = 0
    /\ all_image_infos = <<>>
    /\ all_anno_infos = <<>>
    /\ last = [skipped |-> TRUE, from |-> 0, imgs |-> 0]
    /\ solo = NewRun

\* One iteration of the loop of line 198: the next annotation file is read.
\* solo is what a run over a dataset that holds this file alone emits.
ConvertFile ==
    /\ conv_pc = "loop"
    /\ idx < MaxFiles
    /\ \E file \in AnnoFiles :
          LET st == [idx |-> idx, anno_id |-> anno_id, images |-> all_image_infos,
                     annos |-> all_anno_infos]
          IN  \E r \in {LoopBody(st, file)} :
              /\ idx' = r.idx
              /\ anno_id' = r.anno_id
              /\ all_image_infos' = r.images
              /\ all_anno_infos' = r.annos
              /\ last' = [skipped |-> file.image = "missing",
                          from |-> Len(all_anno_infos), imgs |-> Len(all_image_infos)]
              /\ solo' = LoopBody(NewRun, file)
    /\ UNCHANGED conv_pc
    /\ UNCHANGED <<region_vars, group_vars, find_vars, dl_vars>>

\* Lines 244-255: the loop is over, the result is written and returned.
ConvertFinish ==
    /\ conv_pc = "loop"
    /\ conv_pc' = "done"
    /\ UNCHANGED <<idx, anno_id, all_image_infos, all_anno_infos, last, solo>>
    /\ UNCHANGED <<region_vars, group_vars, find_vars, dl_vars>>

NextConv == ConvertFile \/ ConvertFinish

\* ------------------------------------------------------------------ one region alone
\* A run that has appended the image record of its first file (line 204).
RegionStart ==
    /\ r_item \in SeqsUpTo(ConvCells, MaxCells)
    /\ r_pc = "call"
    /\ r_before = [NewRun EXCEPT !.images = <<ImageTemplate(0, [name |-> "p1"])>>]
    /\ r_after = r_before

RegionIdle ==
    /\ r_item = <<>>
    /\ r_pc = "idle"
    /\ r_before = NewRun
    /\ r_after = NewRun

\* The body of the loop of line 208 for one TableRegion (lines 217-234).
RegionStep ==
    /\ r_pc = "call"
    /\ r_after' = ProcessRegion(r_before, r_before.idx, r_item)
    /\ r_pc' = "done"
    /\ UNCHANGED <<r_item, r_before>>
    /\ UNCHANGED <<conv_vars, group_vars, find_vars, dl_vars>>

NextRegion == RegionStep

\* ------------------------------------------------------------------ grouping alone
GroupCells == [row : GroupAttrs, col : GroupAttrs, coords : {Coords("none", NoPoints)}]

GroupStart ==
    /\ g_cells \in SeqsUpTo(GroupCells, MaxGroupCells)
    /\ g_pc = "call"
    /\ g_rows = <<>>
    /\ g_columns = <<>>

GroupIdle ==
    /\ g_cells = <<>>
    /\ g_pc = "idle"
    /\ g_rows = <<>>
    /\ g_columns = <<>>

ConvIdle ==
    /\ conv_pc = "idle"
    /\ idx = 0
    /\ anno_id = 0
    /\ all_image_infos = <<>>
    /\ all_anno_infos = <<>>
    /\ last = [skipped |-> TRUE, from |-> 0, imgs |-> 0]
    /\ solo = NewRun

\* group_cells_by_row_and_column(cells) is called and returns (lines 81-97).
GroupCall ==
    /\ g_pc = "call"
    /\ LET g == group_cells_by_row_and_column(FindAllTableCell(g_cells))
       IN  /\ g_rows' = g.rows
           /\ g_columns' = g.columns
    /\ g_pc' = "returned"
    /\ UNCHANGED g_cells
    /\ UNCHANGED <<conv_vars, region_vars, find_vars, dl_vars>>

\* ------------------------------------------------------------------ METS manifest
\* A file name is its stem, a sequence of pieces joined by "_", and its
\* extension.  Python's None is the string "None".
None == "None"
Exts == <<".tif", ".jpg">>

\* The page label every lookup of the model is about, and another one.
Page1 == <<"NL-HaNA", "1.04.02", "1234", "0001">>
Page2 == <<"NL-HaNA", "1.04.02", "1234", "0002">>

\* A parsed manifest: its mets:div elements (LABEL, ID) and its mets:file
\* elements (ID, the mets:FLocat child and its xlink:href) in document order.
\* A file ID is the ID of a div followed by a suffix.
DivChoices(labels) ==
    [LABEL : {[stem |-> l, ext |-> e] : l \in labels, e \in Range(Exts)},
     ID : {None, "d1", "d2"}]
FileElChoices ==
    [ID : {"d1", "d2"} \X {"DEF"}, FLocat : {FALSE}, href : {None}]
    \cup [ID : {"d1", "d2"} \X {"DEF"}, FLocat : {TRUE}, href : {None, "https://u1", "https://u2"}]

\* r.find(".//mets:div[@LABEL='...']") (line 59): the first match, 0 for None.
FindDiv(r, label) ==
    IF \E i \in 1..Len(r.divs) : r.divs[i].LABEL = label
    THEN CHOOSE i \in 1..Len(r.divs) :
            /\ r.divs[i].LABEL = label
            /\ \A j \in 1..(i - 1) : r.divs[j].LABEL # label
    ELSE 0

\* r.find(".//mets:file[@ID='...']") (line 63): the first match, 0 for None.
FindFile(r, id) ==
    IF \E i \in 1..Len(r.files) : r.files[i].ID = id
    THEN CHOOSE i \in 1..Len(r.files) :
            /\ r.files[i].ID = id
            /\ \A j \in 1..(i - 1) : r.files[j].ID # id
    ELSE 0

\* The body of the loop of line 57 for one extension (lines 58-67): whether it
\* returns, and what.
TryExt(r, label_without_ext, ext) ==
    LET d == FindDiv(r, [stem |-> label_without_ext, ext |-> ext])
    IN  IF d = 0 THEN [returns |-> FALSE, value |-> None]
        ELSE IF r.divs[d].ID = None THEN [returns |-> FALSE, value |-> None]
        ELSE LET f == FindFile(r, <<r.divs[d].ID, "DEF">>)
             IN  IF f = 0 THEN [returns |-> FALSE, value |-> None]
                 ELSE IF ~r.files[f].FLocat THEN [returns |-> FALSE, value |-> None]
                 ELSE [returns |-> TRUE, value |-> r.files[f].href]

\* find_image_url (lines 53-68) on a manifest that parses.
find_image_url(r, label_without_ext) ==
    IF TryExt(r, label_without_ext, Exts[1]).returns
    THEN TryExt(r, label_without_ext, Exts[1]).value
    ELSE IF TryExt(r, label_without_ext, Exts[2]).returns
    THEN TryExt(r, label_without_ext, Exts[2]).value
    ELSE None

\* ------------------------------------------------------------------ downloader: data
Marker == "1.04.02"
FourDigits == {"0001", "0002", "0005", "1234", "5678", "9999"}

OtherInv == <<"NL-HaNA", "1.04.02", "5678", "0001">>
NoUrl == <<"NL-HaNA", "1.04.02", "9999", "0001">>
Prefixed == <<"0005">> \o Page2
NoMarker == <<"notes">>

\* The stems of the *.xml files source_dir may hold.
SourceChoices == {Page1, Page2, Prefixed, OtherInv, NoUrl, NoMarker}

Xml(stem) == [stem |-> stem, ext |-> "xml"]
Jpg(stem) == [stem |-> stem, ext |-> "jpg"]

\* What target_dir may hold before the run.
TargetChoices == {Xml(<<"notes">>), Jpg(Page1)}

\* unitid -> METS URL as parsed from the EAD file (lines 26-36); a dao
\* without href gives None.
EadChoices ==
    {[k \in {<<"1234">>, <<"5678">>, <<"7777">>} |->
        IF k = <<"7777">> THEN None ELSE "https://mets"]}

\* dict.get (line 87)
DictLookup(d, key) == IF key \in DOMAIN d THEN d[key] ELSE None

\* Python truthiness of an Optional[str] (lines 88, 101)
Truthy(x) == x # None /\ x # ""

\* Bodies a manifest URL may serve: one that does not parse, and manifests in
\* which the pages resolve in the different ways find_image_url tells apart.
Div(stem, ext, id) == [LABEL |-> [stem |-> stem, ext |-> ext], ID |-> id]
FileEl(id, flocat, href) == [ID |-> <<id, "DEF">>, FLocat |-> flocat, href |-> href]
MetsBodies ==
    { [parses |-> FALSE, root |-> [divs |-> <<>>, files |-> <<>>]],
      [parses |-> TRUE,
       root |-> [divs |-> <<Div(Page1, ".tif", "d1"), Div(Page2, ".jpg", "d2"),
                            Div(OtherInv, ".tif", "d2")>>,
                 files |-> <<FileEl("d1", TRUE, "https://u1"), FileEl("d2", TRUE, "https://u2")>>]],
      [parses |-> TRUE,
       root |-> [divs |-> <<Div(Page1, ".tif", "d1"), Div(Page1, ".jpg", "d2"),
                            Div(Page2, ".tif", None)>>,
                 files |-> <<FileEl("d1", TRUE, None), FileEl("d2", TRUE, "https://u1")>>]],
      [parses |-> TRUE,
       root |-> [divs |-> <<Div(Page1, ".tif", "d1"), Div(Page2, ".tif", "d2")>>,
                 files |-> <<FileEl("d1", TRUE, "no-scheme"), FileEl("d2", TRUE, "")>>]] }

\* requests.get raises MissingSchema, a ValueError, for a URL without scheme.
WellFormed(url) == url \in {"https://u1", "https://u2", "https://mets"}

\* ------------------------------------------------------------------ downloader: functions
\* Where "1.04.02_" occurs in a file name: a piece that is the marker and is
\* followed by "_", that is, not the last piece.
MarkerAt(stem) == {i \in 1..(Len(stem) - 1) : stem[i] = Marker}

\* extract_inventory_number (lines 38-43) on file name stem + ".xml":
\* filename.split("1.04.02_")[1].split("_")[0], ValueError without marker.
extract_inventory_number(stem) ==
    IF MarkerAt(stem) = {} THEN [raises |-> TRUE, value |-> <<>>]
    ELSE LET i == Lowest(MarkerAt(stem))
         IN  IF i + 1 \in MarkerAt(stem) THEN [raises |-> FALSE, value |-> <<>>]
             ELSE IF i + 1 = Len(stem)
             THEN [raises |-> FALSE, value |-> <<stem[i + 1], ".xml">>]
             ELSE [raises |-> FALSE, value |-> <<stem[i + 1]>>]

\* The new name rename_files gives a file (lines 74-81).
NewName(stem) ==
    IF Len(stem) >= 2 /\ stem[1] \in FourDigits THEN Tail(stem) ELSE stem

\* A plausible slip: the inventory number is not remembered.
MarkProcessed_Forgets(done, inv_no) == done

\* processed_mets.add(inv_no) (line 96)
MarkProcessed(done, inv_no) == done \cup {inv_no}

\* A plausible slip: the check for an image already on disk left out.
ImageExists_Never(dir, label) == FALSE

\* image_path.exists() (line 106)
ImageExists(dir, label) == Jpg(label) \in dir

\* Lines 101-117, after find_image_url returned image_url: the ways the call
\* can end.  requested: an HTTP request for the image was issued.
FetchOutcomes(dir, label, image_url) ==
    IF ~Truthy(image_url)
    THEN {[status |-> "returned", target_dir |-> dir, requested |-> FALSE, saved |-> FALSE]}
    ELSE IF ImageExists(dir, label)
    THEN {[status |-> "returned", target_dir |-> dir, requested |-> FALSE, saved |-> FALSE]}
    ELSE IF ~WellFormed(image_url)
    THEN \* requests.get raises a ValueError, caught in line 116
         {[status |-> "returned", target_dir |-> dir, requested |-> FALSE, saved |-> FALSE]}
    ELSE {[status |-> "returned", target_dir |-> dir \cup {Jpg(label)},
           requested |-> TRUE, saved |-> TRUE],
          \* raise_for_status raises an HTTPError, which line 116 does not catch
          [status |-> "raised", target_dir |-> dir, requested |-> TRUE, saved |-> FALSE]}

\* Lines 98-117 with the manifest of inv_no on disk.
LookupOutcomes(stem, inv_no, dir, done, disk, log) ==
    LET body == disk[inv_no]
        log1 == Append(log, [op |-> "find_image_url", inv |-> inv_no])
    IN  IF ~body.parses
        THEN \* ET.parse raises ParseError, which line 116 does not catch
             {[status |-> "raised", target_dir |-> dir, processed_mets |-> done,
               mets_disk |-> disk, calls |-> log1, lookup |-> "raised",
               requested |-> FALSE, saved |-> FALSE]}
        ELSE {[status |-> o.status, target_dir |-> o.target_dir, processed_mets |-> done,
               mets_disk |-> disk, calls |-> log1,
               lookup |-> find_image_url(body.root, stem),
               requested |-> o.requested, saved |-> o.saved] :
                 o \in FetchOutcomes(dir, stem, find_image_url(body.root, stem))}

\* process_file (lines 84-117) on the file named stem + ".xml": the ways the
\* call can end, over what the servers answer.
ProcessFileOutcomes(stem, dict, dir, done, disk, log) ==
    LET inv == extract_inventory_number(stem)
        quiet == [target_dir |-> dir, processed_mets |-> done, mets_disk |-> disk,
                  calls |-> log, lookup |-> "not reached", requested |-> FALSE,
                  saved |-> FALSE]
    IN  IF inv.raises THEN {[status |-> "raised"] @@ quiet}
        ELSE IF ~Truthy(DictLookup(dict, inv.value)) THEN {[status |-> "returned"] @@ quiet}
        ELSE IF inv.value \notin done
        THEN LET log1 == Append(log, [op |-> "download_mets", inv |-> inv.value])
             IN  {[status |-> "raised"] @@ [quiet EXCEPT !.calls = log1]}
                 \cup UNION {LookupOutcomes(stem, inv.value, dir \cup {Xml(inv.value)},
                                            MarkProcessed(done, inv.value),
                                            [k \in DOMAIN disk \cup {inv.value} |->
                                                IF k = inv.value THEN body ELSE disk[k]],
                                            log1) : body \in MetsBodies}
        ELSE LookupOutcomes(stem, inv.value, dir, done, disk, log)

\* ------------------------------------------------------------------ downloader: main
Subsets(S, n) == {T \in SUBSET S : Cardinality(T) <= n}

\* The orders in which a directory listing can give the files of set S.
Listings(S) == {l \in [1..Cardinality(S) -> S] : Range(l) = S}

DlStart ==
    /\ dl_pc = "rename"
    /\ source_dir \in Subsets(SourceChoices, MaxSources)
    /\ target_dir \in SUBSET TargetChoices
    /\ renamed_files = <<>>
    /\ unitid_mets = <<>>
    /\ processed_mets = {}
    /\ mets_disk = <<>>
    /\ pos = 0
    /\ calls = <<>>
    /\ handed = <<>>
    /\ dir0 = [source |-> source_dir, target |-> target_dir]

DlIdle ==
    /\ dl_pc = "idle"
    /\ source_dir = {}
    /\ target_dir = {}
    /\ renamed_files = <<>>
    /\ unitid_mets = <<>>
    /\ processed_mets = {}
    /\ mets_disk = <<>>
    /\ pos = 0
    /\ calls = <<>>
    /\ handed = <<>>
    /\ dir0 = [source |-> {}, target |-> {}]

\* rename_files(source_dir) (lines 70-82, called in line 134).
RenameFiles ==
    /\ dl_pc = "rename"
    /\ \E listing \in Listings(source_dir) :
          renamed_files' = [i \in 1..Len(listing) |-> NewName(listing[i])]
    /\ source_dir' = {NewName(f) : f \in source_dir}
    /\ dl_pc' = "ead"
    /\ UNCHANGED <<target_dir, unitid_mets, processed_mets, mets_disk, pos, calls, handed, dir0>>
    /\ UNCHANGED <<conv_vars, region_vars, group_vars, find_vars>>

\* ensure_1_04_02_xml and parse_unitid_mets succeed (lines 137-140).
ParseEad ==
    /\ dl_pc = "ead"
    /\ unitid_mets' \in EadChoices
    /\ processed_mets' = {}
    /\ dl_pc' = "loop"
    /\ UNCHANGED <<source_dir, target_dir, renamed_files, mets_disk, pos, calls, handed, dir0>>
    /\ UNCHANGED <<conv_vars, region_vars, group_vars, find_vars>>

\* The download of 1.04.02.xml fails (line 21) and main ends with the exception.
EadFails ==
    /\ dl_pc = "ead"
    /\ dl_pc' = "crashed"
    /\ UNCHANGED <<source_dir, target_dir, renamed_files, unitid_mets, processed_mets,
                   mets_disk, pos, calls, handed, dir0>>
    /\ UNCHANGED <<conv_vars, region_vars, group_vars, find_vars>>

\* One iteration of the loop of lines 141-142; an exception that leaves
\* process_file ends main.
ProcessFile ==
    /\ dl_pc = "loop"
    /\ pos < Len(renamed_files)
    /\ \E o \in ProcessFileOutcomes(renamed_files[pos + 1], unitid_mets, target_dir,
                                    processed_mets, mets_disk, calls) :
          /\ target_dir' = o.target_dir
          /\ processed_mets' = o.processed_mets
          /\ mets_disk' = o.mets_disk
          /\ calls' = o.calls
          /\ handed' = Append(handed, [file |-> renamed_files[pos + 1], status |-> o.status,
                                       lookup |-> o.lookup,
                                       existed |-> Jpg(renamed_files[pos + 1]) \in target_dir,
                                       requested |-> o.requested, saved |-> o.saved])
          /\ dl_pc' = IF o.status = "raised" THEN "crashed" ELSE "loop"
    /\ pos' = pos + 1
    /\ UNCHANGED <<source_dir, renamed_files, unitid_mets, dir0>>
    /\ UNCHANGED <<conv_vars, region_vars, group_vars, find_vars>>

\* Lines 144-147: every *.xml of target_dir is unlinked, and main returns.
Cleanup ==
    /\ dl_pc = "loop"
    /\ pos = Len(renamed_files)
    /\ target_dir' = {f \in target_dir : f.ext # "xml"}
    /\ dl_pc' = "done"
    /\ UNCHANGED <<source_dir, renamed_files, unitid_mets, processed_mets, mets_disk, pos,
                   calls, handed, dir0>>
    /\ UNCHANGED <<conv_vars, region_vars, group_vars, find_vars>>

NextDl == RenameFiles \/ ParseEad \/ EadFails \/ ProcessFile \/ Cleanup

\* ------------------------------------------------------------------ lookup alone
FindStart ==
    /\ f_mets \in [divs : SeqsUpTo(DivChoices({Page1}), MaxDivs),
                   files : SeqsUpTo(FileElChoices, MaxFileEls)]
    /\ f_label = Page1
    /\ f_pc = "call"
    /\ f_result = None

FindIdle ==
    /\ f_mets = [divs |-> <<>>, files |-> <<>>]
    /\ f_label = Page1
    /\ f_pc = "idle"
    /\ f_result = None

\* find_image_url(mets_file, label) is called and returns.
FindCall ==
    /\ f_pc = "call"
    /\ f_result' = find_image_url(f_mets, f_label)
    /\ f_pc' = "returned"
    /\ UNCHANGED <<f_mets, f_label>>
    /\ UNCHANGED <<conv_vars, region_vars, group_vars, dl_vars>>

NextFind == FindCall

InitFind == FindStart /\ ConvIdle /\ RegionIdle /\ GroupIdle /\ DlIdle

SpecFind == InitFind /\ [][NextFind]_vars

\* ------------------------------------------------------------------ claims: lookup
\* The labelled div, the file element with ID '<div ID>DEF' and an FLocat href
\* all exist for extension ext; the div and the file element are the ones
\* the search finds.
ExtResolves(r, label, ext) ==
    LET d == FindDiv(r, [stem |-> label, ext |-> ext])
    IN  /\ d # 0
        /\ r.divs[d].ID # None
        /\ FindFile(r, <<r.divs[d].ID, "DEF">>) # 0
        /\ r.files[FindFile(r, <<r.divs[d].ID, "DEF">>)].FLocat
        /\ r.files[FindFile(r, <<r.divs[d].ID, "DEF">>)].href # None

ExtHref(r, label, ext) ==
    r.files[FindFile(r, <<r.divs[FindDiv(r, [stem |-> label, ext |-> ext])].ID, "DEF">>)].href

\* C7: find_image_url returns the href of the first of '.tif', '.jpg' that
\* resolves, and None if and only if neither resolves.
C7_FirstResolving ==
    f_pc = "returned" =>
        /\ ExtResolves(f_mets, f_label, ".tif") => f_result = ExtHref(f_mets, f_label, ".tif")
        /\ (~ExtResolves(f_mets, f_label, ".tif") /\ ExtResolves(f_mets, f_label, ".jpg"))
              => f_result = ExtHref(f_mets, f_label, ".jpg")
        /\ f_result = None
              <=> (~ExtResolves(f_mets, f_label, ".tif") /\ ~ExtResolves(f_mets, f_label, ".jpg"))

\* ------------------------------------------------------------------ specifications
InitDl == DlStart /\ ConvIdle /\ RegionIdle /\ GroupIdle /\ FindIdle

SpecDl == InitDl /\ [][NextDl]_vars

InitConv == ConvStart /\ RegionIdle /\ GroupIdle /\ FindIdle /\ DlIdle

InitRegion == RegionStart /\ ConvIdle /\ GroupIdle /\ FindIdle /\ DlIdle

SpecRegion == InitRegion /\ [][NextRegion]_vars

SpecConv == InitConv /\ [][NextConv]_vars

NextGroup == GroupCall

InitGroup == GroupStart /\ ConvIdle /\ RegionIdle /\ FindIdle /\ DlIdle

SpecGroup == InitGroup /\ [][NextGroup]_vars

\* ------------------------------------------------------------------ claims: converter
\* What the latest loop iteration appended to the output.
LastAnnos == SubSeq(all_anno_infos, last.from + 1, Len(all_anno_infos))
LastImages == SubSeq(all_image_infos, last.imgs + 1, Len(all_image_infos))

\* The row and column indices that occur in a region, and a group's cells.
RowKeys(item) == {ParseInt(item[i].row) : i \in 1..Len(item)}
ColKeys(item) == {ParseInt(item[i].col) : i \in 1..Len(item)}
RowCells(item, r) == {i \in 1..Len(item) : ParseInt(item[i].row) = r}
ColCells(item, c) == {i \in 1..Len(item) : ParseInt(item[i].col) = c}

\* A group whose cells have no coordinate points at all.
ZeroPoints(item, group) == \A i \in group : item[i].coords.array.n = 0

\* A group whose union has an outline: some cell of it has at least three
\* points and an area, and no cell of it with at least three points is a
\* zero-area outline outside the area of the others.
HasOutline(item, group) ==
    /\ \E i \in group : item[i].coords.array.n >= 3 /\ item[i].coords.array.shape = "area"
    /\ \A i \in group :
          (item[i].coords.array.n >= 3 /\ item[i].coords.array.shape = "line")
          => \E j \in group : /\ item[j].coords.array.n >= 3
                              /\ item[j].coords.array.shape = "area"
                              /\ item[j].coords.array.slot = item[i].coords.array.slot

GroupsOf(item) ==
    {RowCells(item, r) : r \in RowKeys(item)} \cup {ColCells(item, c) : c \in ColKeys(item)}

NumGroups(item) == Cardinality(RowKeys(item)) + Cardinality(ColKeys(item))

NoOutline(item, group) == ~HasOutline(item, group)

\* The groups of a region less those without any point, and less those
\* without an outline.
GroupsWithPoints(item) ==
    Cardinality({r \in RowKeys(item) : ~ZeroPoints(item, RowCells(item, r))})
    + Cardinality({c \in ColKeys(item) : ~ZeroPoints(item, ColCells(item, c))})

GroupsWithOutline(item) ==
    Cardinality({r \in RowKeys(item) : ~NoOutline(item, RowCells(item, r))})
    + Cardinality({c \in ColKeys(item) : ~NoOutline(item, ColCells(item, c))})

\* The number of records lines 217-234 appended for the region.
Emitted == Len(r_after.annos) - Len(r_before.annos)

\* C1 as stated: for a TableRegion of a file that is not skipped, the number
\* of records emitted is the number of row groups plus column groups minus
\* the groups whose cells have no coordinate points at all.
C1_AsStated ==
    r_pc = "done" => Emitted = GroupsWithPoints(r_item)

\* C1 amended: for a TableRegion of a file that is not skipped, the number of
\* records emitted is the number of row groups plus column groups minus the
\* groups whose union has no polygon outline (no cell with at least three
\* points, or a union that is neither a Polygon nor a MultiPolygon).
C1_RecordCount ==
    r_pc = "done" => Emitted = GroupsWithOutline(r_item)

\* A region with a group that has points, but fewer than three per cell
\* (dropped), beside a group of two squares apart (a MultiPolygon, emitted).
C1_Witness ==
    /\ r_pc = "done"
    /\ \E g \in GroupsOf(r_item) :
          /\ ~ZeroPoints(r_item, g)
          /\ \A i \in g : r_item[i].coords.array.n < 3
    /\ \E g \in GroupsOf(r_item) :
          /\ HasOutline(r_item, g)
          /\ {r_item[i].coords.array.slot : i \in g} = {1, 4}
    /\ Emitted >= 1
    /\ Emitted < NumGroups(r_item)

\* C3: after convert_to_COCO the ids of the annotation records are
\* 0, 1, ..., n-1 in emission order (hence pairwise distinct).
C3_AnnoIds ==
    conv_pc = "done" =>
        /\ \A i \in 1..Len(all_anno_infos) : all_anno_infos[i].id = i - 1
        /\ \A i, j \in 1..Len(all_anno_infos) :
              i # j => all_anno_infos[i].id # all_anno_infos[j].id

\* A finished run over a skipped file, a file without records and a file
\* with at least two records.
C3_Witness ==
    /\ conv_pc = "done"
    /\ idx > Len(all_image_infos)
    /\ \E j \in 1..Len(all_image_infos) :
          \A i \in 1..Len(all_anno_infos) : all_anno_infos[i].image_id # all_image_infos[j].id
    /\ Len(all_anno_infos) >= 2

\* C4: every annotation record's image_id is the id of exactly one image
\* record of the output, and a skipped file adds no image record and no
\* annotation record.
C4_ImageIds ==
    /\ conv_pc = "done" =>
          \A i \in 1..Len(all_anno_infos) :
              Cardinality({j \in 1..Len(all_image_infos) :
                              all_image_infos[j].id = all_anno_infos[i].image_id}) = 1
    /\ last.skipped => LastAnnos = <<>> /\ LastImages = <<>>

\* A finished run whose first file was skipped and whose second file has
\* records.
C4_Witness ==
    /\ conv_pc = "done"
    /\ idx = 2
    /\ Len(all_image_infos) = 1
    /\ all_image_infos[1].id = 1
    /\ Len(all_anno_infos) >= 1

\* C5 as stated: the records emitted for a file are the same whatever was
\* processed before it; here, the same as in a run over that file alone.
C5_AsStated ==
    /\ LastAnnos = solo.annos
    /\ LastImages = solo.images

ImageContent(r) == [file_name |-> r.file_name, height |-> r.height, width |-> r.width]
AnnoContent(r) ==
    [segmentation |-> r.segmentation, area |-> r.area, iscrowd |-> r.iscrowd,
     bbox |-> r.bbox, category_id |-> r.category_id]

\* C5 amended: apart from the id of the image record and the id and image_id
\* of the annotation records, the records emitted for a file are the same
\* whatever was processed before it.
C5_SameContent ==
    /\ Len(LastAnnos) = Len(solo.annos)
    /\ Len(LastImages) = Len(solo.images)
    /\ \A i \in 1..Len(LastAnnos) : AnnoContent(LastAnnos[i]) = AnnoContent(solo.annos[i])
    /\ \A i \in 1..Len(LastImages) : ImageContent(LastImages[i]) = ImageContent(solo.images[i])

\* A second file that emits records after a first file that emitted some.
C5_Witness ==
    /\ idx = 2
    /\ last.from >= 1
    /\ Len(LastAnnos) >= 2
    /\ Len(LastImages) = 1

\* ------------------------------------------------------------------ claims: grouping
\* Where cell element el occurs in a dict of groups.
Places(d, el) ==
    {<<i, j>> \in (1..Len(d)) \X (1..MaxGroupCells + 1) :
        j <= Len(d[i].v) /\ d[i].v[j].el = el}

KeyAttr(cell, which) == IF which = "row" THEN cell.row ELSE cell.col

PartitionBy(d, which) ==
    /\ \A i, j \in 1..Len(d) : i # j => d[i].k # d[j].k
    /\ \A i \in 1..Len(d) : d[i].v # <<>>
    /\ \A i \in 1..Len(d) : \A j \in 1..Len(d[i].v) :
          /\ d[i].v[j].el \in 1..Len(g_cells)
          /\ d[i].k = ParseInt(KeyAttr(g_cells[d[i].v[j].el], which))
          /\ \A m \in 1..Len(d[i].v) : j < m => d[i].v[j].el < d[i].v[m].el
    /\ \A el \in 1..Len(g_cells) : Cardinality(Places(d, el)) = 1

\* C6: group_cells_by_row_and_column partitions the cells by key: every cell
\* is exactly once in rows[int(row)] and exactly once in columns[int(col)] and
\* in no other group, no group is empty, and a group keeps the input order.
C6_Partition ==
    g_pc = "returned" => PartitionBy(g_rows, "row") /\ PartitionBy(g_columns, "col")

\* A call whose rows dict has a group of two cells written "1" and "01" and a
\* second group.
C6_Witness ==
    /\ g_pc = "returned"
    /\ Len(g_rows) = 2
    /\ \E i \in 1..Len(g_rows) :
          /\ Len(g_rows[i].v) = 2
          /\ g_rows[i].v[1].row # g_rows[i].v[2].row

\* ------------------------------------------------------------------ claims: downloader
\* The label of a handed file resolved to an image URL in the manifest of its
\* inventory number.
Resolved(h) ==
    /\ h.lookup \notin {"not reached", "raised"}
    /\ Truthy(h.lookup)
    /\ WellFormed(h.lookup)

\* C2 as stated: for every file process_file was called on and returned for,
\* the image is fetched (requested and saved as <label>.jpg) if and only if
\* the label resolves in the manifest.
C2_AsStated ==
    \A i \in 1..Len(handed) :
        handed[i].status = "returned"
        => ((handed[i].requested /\ handed[i].saved) <=> Resolved(handed[i]))

\* C2 amended: for every file handed to process_file, an HTTP request for the
\* image is issued if and only if find_image_url returns a well-formed URL
\* for the label from the downloaded manifest and <label>.jpg is not yet in
\* target_dir; the body is saved as <label>.jpg if and only if that request
\* succeeds.
C2_FetchIffResolvedAndNew ==
    \A i \in 1..Len(handed) :
        /\ handed[i].requested <=> (Resolved(handed[i]) /\ ~handed[i].existed)
        /\ handed[i].saved <=> (handed[i].requested /\ handed[i].status = "returned")
        /\ handed[i].saved => Jpg(handed[i].file) \in target_dir

\* A run in which one file resolved but its image was already there, and
\* another file's image was requested and saved.
C2_Witness ==
    /\ \E i \in 1..Len(handed) :
          Resolved(handed[i]) /\ handed[i].existed /\ ~handed[i].requested
    /\ \E i \in 1..Len(handed) : handed[i].saved /\ ~handed[i].existed

\* The manifests downloaded in this run, as files of target_dir.
DownloadedMets == {Xml(calls[k].inv) : k \in {j \in 1..Len(calls) : calls[j].op = "download_mets"}}

\* C8: after main, every file that was in target_dir before the run and is
\* not a manifest downloaded in this run is still there, and so is every
\* file of source_dir (under the name rename_files gave it).
C8_OnlyDownloadedMetsDeleted ==
    dl_pc = "done" =>
        /\ \A f \in dir0.target : f \in target_dir \/ f \in DownloadedMets
        /\ \A f \in dir0.source : NewName(f) \in source_dir

\* C9: a failure inside process_file is confined to its file: once the loop
\* has started, main ends only after every source file was handed to
\* process_file and the cleanup ran.
C9_FailureConfined ==
    (dl_pc \in {"done", "crashed"} /\ (pos > 0 \/ dl_pc = "done"))
    => (Len(handed) = Len(renamed_files) /\ dl_pc = "done")

DownloadsBefore(k, inv) ==
    {j \in 1..(k - 1) : calls[j].op = "download_mets" /\ calls[j].inv = inv}

\* C10: every find_image_url lookup for an inventory number comes after
\* exactly one download_mets call for it, and no inventory number's manifest
\* is downloaded twice in a run.
C10_OneDownloadPerInventory ==
    /\ \A k \in 1..Len(calls) :
          calls[k].op = "find_image_url"
          => Cardinality(DownloadsBefore(k, calls[k].inv)) = 1
    /\ \A k \in 1..Len(calls) :
          calls[k].op = "download_mets" => DownloadsBefore(k, calls[k].inv) = {}

\* Two source files of one inventory number were looked up.
C10_Witness ==
    /\ Len(handed) = 2
    /\ handed[1].file # handed[2].file
    /\ \E j, k \in 1..Len(calls) :
          /\ j < k
          /\ calls[j].op = "find_image_url"
          /\ calls[k].op = "find_image_url"
          /\ calls[j].inv = calls[k].inv

====
